---- MODULE Spec2Model ----
(***************************************************************************)
(* WheelFlow simulation pipeline orchestrator (backend/app.py) and its job *)
(* registry (backend/database.py).                                         *)
(*                                                                         *)
(* The server is one asyncio event loop.  A coroutine runs without         *)
(* interruption until it awaits an external process; request handlers and  *)
(* other pipelines run only while every pipeline is suspended.  Each       *)
(* pipeline position is a value of pc; the positions in AwaitLocs are the  *)
(* suspension points.                                                      *)
(***************************************************************************)
EXTENDS Integers, Sequences, FiniteSets, TLC

\* ------------------------------------------------------------------ bounds
MaxJobs == 2    \* job records created in one run (stand-alone jobs and sub-jobs)
MaxRuns == 2    \* direct invocations of run_simulation on one job (RerunSpec only)

\* ------------------------------------------------------------- input sets
\* Form inputs of a submission: one per branch of the pipeline (missing
\* geometry; .stl or .obj; serial or parallel tier; with or without topoSet;
\* steady or transient solver set-up).
In(file_id, quality, rotation_method, rolling_enabled) ==
    [file_id |-> file_id, quality |-> quality,
     rotation_method |-> rotation_method, rolling_enabled |-> rolling_enabled]
SimInputs ==
    { In("f_none", "standard", "none",      TRUE),
      In("f_stl",  "basic",    "mrf",       TRUE),
      In("f_obj",  "basic",    "transient", FALSE),
      In("f_stl",  "standard", "mrf",       TRUE),
      In("f_obj",  "standard", "mrf",       FALSE),
      In("f_obj",  "standard", "transient", TRUE) }
\* Inputs of a batch submission: every sub-job fails at once, or runs the
\* serial pipeline.
BatchInputs ==
    { In("f_none", "standard", "none",      TRUE),
      In("f_obj",  "basic",    "transient", FALSE) }
\* Yaw angles are kept in tenths of a degree: 5 is 0.5 degrees.
\* Yaw lists of a batch: one angle; two angles; 0.0 and 0.5, which truncate
\* to the same whole degree; three angles.
YawLists == { << 0 >>, << 0, 100 >>, << 0, 5 >>, << 0, 50, 100 >> }
\* int(yaw): truncation to whole degrees.
int_yaw(y) == y \div 10

\* Extension under which an uploaded file is stored in UPLOAD_DIR, "" if none.
UploadExt(file_id) ==
    CASE file_id = "f_stl" -> ".stl"
      [] file_id = "f_obj" -> ".obj"
      [] OTHER             -> ""

\* Optional values: None is the empty sequence, Some(v) the one-element one.
None    == << >>
Some(v) == << v >>
IsNone(o) == o = << >>
IsSome(o) == o # << >>

\* json.dumps / json.loads: the stored text wraps the value.
json_dumps(v) == [json |-> v]
json_loads(s) == s.json

\* A raised exception, by the text str(e) gives: a message kind and the
\* value interpolated into it.
Exc(kind, arg) == [kind |-> kind, arg |-> arg]

VARIABLES
    uuid,        \* number of uuid4 values drawn so far
    runs,        \* number of invocations of run_simulation, by job id
    heap,        \* job dict objects, by job id (an object outlives its map entry)
    jobs,        \* keys of the in-memory `jobs` dict
    db,          \* rows of the sqlite table `jobs`, by id
    pc,          \* position of run_simulation for each job
    fs,          \* case directory of each job
    launched,    \* external processes started for each job, in order
    batch_jobs,  \* the in-memory `batch_jobs` dict
    bpc          \* position of run_batch_simulation for each batch

\* A stand-alone call of the decomposition planner (PlanSpec only).
VARIABLES
    num_procs,   \* the argument of the call, None when no call is made
    planned      \* the function called and the text it produced, None before

pipelineVars == << uuid, runs, heap, jobs, db, pc, fs, launched, batch_jobs, bpc >>
planVars     == << num_procs, planned >>

vars == << uuid, runs, heap, jobs, db, pc, fs, launched, batch_jobs, bpc, num_procs, planned >>

jobVars   == << heap, jobs, db >>
batchVars == << batch_jobs, bpc >>

\* ------------------------------------------------------------ dict helpers
MapPut(f, k, v) == [x \in (DOMAIN f) \cup {k} |-> IF x = k THEN v ELSE f[x]]
MapDel(f, k)    == [x \in (DOMAIN f) \ {k} |-> f[x]]

\* ----------------------------------------------------------- job statuses
Terminal == {"complete", "failed"}

\* Job ids: str(uuid4())[:8] for a stand-alone job, "<batch_id>_<int(yaw)>"
\* for a batch sub-job.
JobId(n)       == [uuid |-> n, sfx |-> None]
SubJobId(b, y) == [uuid |-> b, sfx |-> Some(y)]

\* ------------------------------------------------- database.py (sqlite)
\* job_to_dict: a row as a job dictionary, JSON columns parsed when set.
job_to_dict(row) ==
    [status  |-> row.status,
     config  |-> json_loads(row.config),
     results |-> IF IsSome(row.results) THEN Some(json_loads(row.results[1])) ELSE None,
     error   |-> row.error]

\* create_job: INSERT with status 'pending' (the caller guards the primary key).
db_create_job(d, job_id, config) ==
    MapPut(d, job_id, [status  |-> "pending",
                       config  |-> json_dumps(config),
                       results |-> None,
                       error   |-> None])

db_get_job(d, job_id) == job_to_dict(d[job_id])

\* INSERT OR REPLACE: a missing row is created.
db_update_job_Upsert(d, job_id, status, results, error) ==
    MapPut(d, job_id,
           [status  |-> status,
            config  |-> json_dumps("-"),
            results |-> IF IsSome(results) THEN Some(json_dumps(results[1])) ELSE None,
            error   |-> error])

\* update_job: UPDATE ... WHERE id = ?; no row, no change.
db_update_job(d, job_id, status, results, error) ==
    IF job_id \in DOMAIN d
    THEN [d EXCEPT ![job_id] =
            [@ EXCEPT !.status  = status,
                      !.results = IF IsSome(results) THEN Some(json_dumps(results[1])) ELSE None,
                      !.error   = error]]
    ELSE d

db_delete_job(d, job_id) == MapDel(d, job_id)

\* The final write leaves out the error column.
sync_job_to_db_NoError(d, job_id, job) ==
    db_update_job(d, job_id, job.status, job.results, None)

\* sync_job_to_db(job_id, job): writes status, results and error of the dict.
sync_job_to_db(d, job_id, job) ==
    db_update_job(d, job_id, job.status, job.results, job.error)

\* ------------------------------------------------ positions of run_simulation
Loc(l)          == [loc |-> l, cmd |-> "-", phase |-> "-", par |-> FALSE]
Enter(c, par)   == [loc |-> "enter", cmd |-> c, phase |-> "-", par |-> par]
Await(c, p, par) == [loc |-> "await", cmd |-> c, phase |-> p, par |-> par]
Idle      == Loc("idle")
Scheduled == Loc("scheduled")
Done      == Loc("done")
Crashed   == Loc("crashed")

\* Locations at which the coroutine is not on the CPU.
RestLocs == {"idle", "scheduled", "await", "done", "crashed"}
JobBusy(j) == pc[j].loc \notin RestLocs

\* The sub-job a batch is currently running.
CurSub(b) == batch_jobs[b].sub_jobs[bpc[b].i]
\* run_batch_simulation goes on as soon as its callee is suspended.
BatchBusy_NoAwait(b) ==
    bpc[b].loc = "in_run" /\ pc[CurSub(b)].loc \in {"await", "done", "crashed"}

\* run_batch_simulation is on the CPU: its callee has just returned.
BatchBusy(b) == bpc[b].loc = "in_run" /\ pc[CurSub(b)].loc \in {"done", "crashed"}

\* The event loop is free to run a request handler or to start a task.
LoopIdle == (\A j \in DOMAIN pc : ~JobBusy(j)) /\ (\A b \in DOMAIN bpc : ~BatchBusy(b))
\* The coroutine of job j may take its next step.
MayStep(j) == (\A k \in DOMAIN pc : k # j => ~JobBusy(k)) /\ (\A b \in DOMAIN bpc : ~BatchBusy(b))

\* A state a poll can observe: run_simulation of j is not on the CPU.
Observable(j) == ~JobBusy(j)

\* ------------------------------------------------------------ the file system
\* A case directory: whether it exists, whether it holds processor*
\* directories, and its log.<name> files, oldest first.
NoDir == [exists |-> FALSE, processors |-> FALSE, logs |-> << >>]

\* open(log_file, 'w') and the write: the file becomes the newest log.
RECURSIVE Without(_, _)
Without(seq, x) ==
    IF seq = << >> THEN << >>
    ELSE IF Head(seq) = x THEN Without(Tail(seq), x)
    ELSE << Head(seq) >> \o Without(Tail(seq), x)
WriteLog(logs, name) == Append(Without(logs, name), name)
LogNames(dir) == { dir.logs[i] : i \in 1..Len(dir.logs) }

\* ------------------------------------------------------------------- Init
NoJobs ==
    /\ uuid = 0
    /\ runs = << >>
    /\ heap = << >>
    /\ jobs = {}
    /\ db = << >>
    /\ pc = << >>
    /\ fs = << >>
    /\ launched = << >>
    /\ batch_jobs = << >>
    /\ bpc = << >>

Init ==
    /\ NoJobs
    /\ num_procs = None
    /\ planned = None

\* ------------------------------------------------ POST /api/simulate
\* The job dictionary start_simulation stores: the row db.create_job returns,
\* plus progress 0.
NewJob(d, job_id) ==
    [status   |-> db_get_job(d, job_id).status,
     config   |-> db_get_job(d, job_id).config,
     results  |-> db_get_job(d, job_id).results,
     error    |-> db_get_job(d, job_id).error,
     progress |-> 0]

SimConfig(file_id, quality, rotation_method, rolling_enabled) ==
    [file_id         |-> file_id,
     quality         |-> quality,
     rotation_method |-> rotation_method,
     rolling_enabled |-> rolling_enabled,
     wheel_radius    |-> "form"]

start_simulation(file_id, quality, rotation_method, rolling_enabled) ==
    /\ LoopIdle
    /\ Cardinality(DOMAIN heap) < MaxJobs
    /\ LET job_id == JobId(uuid + 1)
           config == SimConfig(file_id, quality, rotation_method, rolling_enabled)
           d1     == db_create_job(db, job_id, config)
       IN /\ uuid' = uuid + 1
          /\ db' = d1
          /\ heap' = MapPut(heap, job_id, NewJob(d1, job_id))
          /\ jobs' = jobs \cup {job_id}
          /\ pc' = MapPut(pc, job_id, Scheduled)
          /\ runs' = MapPut(runs, job_id, 0)
          /\ fs' = MapPut(fs, job_id, NoDir)
          /\ launched' = MapPut(launched, job_id, << >>)
    /\ UNCHANGED batchVars

StartSimulation ==
    \E in \in SimInputs :
        start_simulation(in.file_id, in.quality, in.rotation_method, in.rolling_enabled)

\* ------------------------------------------------ DELETE /api/jobs/{job_id}
\* The row is left in the database.
delete_job_KeepRow(job_id) ==
    /\ LoopIdle
    /\ IF job_id \notin jobs
       THEN UNCHANGED vars
       ELSE /\ fs' = [fs EXCEPT ![job_id] = NoDir]
            /\ jobs' = jobs \ {job_id}
            /\ UNCHANGED << uuid, runs, heap, db, pc, launched, batch_jobs, bpc >>

\* 404 for an id that is not in jobs; otherwise the case directory, the row
\* and the dictionary entry are removed.
delete_job(job_id) ==
    /\ LoopIdle
    /\ IF job_id \notin jobs
       THEN UNCHANGED vars
       ELSE /\ fs' = [fs EXCEPT ![job_id] = NoDir]
            /\ db' = db_delete_job(db, job_id)
            /\ jobs' = jobs \ {job_id}
            /\ UNCHANGED << uuid, runs, heap, pc, launched, batch_jobs, bpc >>

\* An id no job was ever given.
UnknownJobId == JobId(0)

DeleteJob == \E j \in DOMAIN heap \cup {UnknownJobId} : delete_job(j)

\* ------------------------------------------------ run_simulation
\* Assignments to the job dictionary held by the coroutine.
SetJob(j, status, progress) ==
    heap' = [heap EXCEPT ![j] = [@ EXCEPT !.status = status, !.progress = progress]]
\* The checkpoints after meshing start again from 0.
SetProgress_Restart(j, progress) ==
    heap' = [heap EXCEPT ![j] = [@ EXCEPT !.progress = IF progress > 20 THEN 0 ELSE progress]]
SetProgress(j, progress) ==
    heap' = [heap EXCEPT ![j] = [@ EXCEPT !.progress = progress]]

\* The handler records the message but leaves the status as it was.
Fail_KeepStatus(j, e) ==
    /\ heap' = [heap EXCEPT ![j] = [@ EXCEPT !.error = Some(e)]]
    /\ pc' = [pc EXCEPT ![j] = Loc("finish")]

\* The handler sets the status but drops the message.
Fail_NoError(j, e) ==
    /\ heap' = [heap EXCEPT ![j] = [@ EXCEPT !.status = "failed"]]
    /\ pc' = [pc EXCEPT ![j] = Loc("finish")]

\* except Exception as e: status "failed", error str(e); then the final sync.
Fail(j, e) ==
    /\ heap' = [heap EXCEPT ![j] = [@ EXCEPT !.status = "failed", !.error = Some(e)]]
    /\ pc' = [pc EXCEPT ![j] = Loc("finish")]

\* Every tier runs in parallel.
use_parallel_Always(config) == config.quality \in {"basic", "standard", "pro"}

use_parallel(config) == config.quality \in {"standard", "pro"}

\* job = jobs[job_id] (KeyError outside the try when the job was deleted),
\* then status "preparing", progress 5.
Begin(j) ==
    /\ runs' = [runs EXCEPT ![j] = @ + 1]
    /\ IF j \in jobs
       THEN /\ SetJob(j, "preparing", 5)
            /\ pc' = [pc EXCEPT ![j] = Loc("resolve")]
       ELSE /\ pc' = [pc EXCEPT ![j] = Crashed]
            /\ UNCHANGED heap
    /\ UNCHANGED << uuid, jobs, db, fs, launched, batch_jobs, bpc >>

\* The background task of a stand-alone job starts, or the call made by
\* run_batch_simulation is entered.
RunBegin(j) ==
    /\ pc[j].loc \in {"scheduled", "start"}
    /\ MayStep(j)
    /\ Begin(j)

\* run_simulation is called again on a job whose earlier run has returned
\* (no request handler does this).
RunAgain(j) ==
    /\ pc[j] = Done
    /\ runs[j] < MaxRuns
    /\ LoopIdle
    /\ Begin(j)

\* A lookup that falls back to .obj when nothing is found.
SourceExt_Fallback(config) ==
    IF UploadExt(config.file_id) = "" THEN ".obj" ELSE UploadExt(config.file_id)

\* for ext in ['.stl', '.obj']: the extension under which the source file is
\* found, "" when the loop ends without a break.
SourceExt(config) == UploadExt(config.file_id)

\* Case directory, geometry lookup and transformation, case files, progress 10.
\* An .stl is validated and transformed (which may raise) and its measured
\* radius and reference area are stored in the config; an .obj is copied.
Resolve(j) ==
    /\ pc[j].loc = "resolve"
    /\ LET config == heap[j].config
           ext    == SourceExt(config)
       IN /\ fs' = [fs EXCEPT ![j].exists = TRUE]
          /\ \/ /\ ext = ""
                /\ Fail(j, Exc("Source file not found for file_id", config.file_id))
             \/ /\ ext = ".stl"
                /\ Fail(j, Exc("stl transform error", "-"))
             \/ /\ ext = ".stl"
                /\ heap' = [heap EXCEPT ![j] =
                      [@ EXCEPT !.progress = 10,
                                !.config = [aref |-> "standard", frontal_area_analysis |-> "analysis"]
                                           @@ [config EXCEPT !.wheel_radius = "measured"]]]
                /\ pc' = [pc EXCEPT ![j] = Loc("prepared")]
             \/ /\ ext = ".obj"
                /\ SetProgress(j, 10)
                /\ pc' = [pc EXCEPT ![j] = Loc("prepared")]
    /\ UNCHANGED << uuid, runs, jobs, db, launched, batch_jobs, bpc >>

\* status "meshing", progress 15, blockMesh (always serial).
MeshStart(j) ==
    /\ pc[j].loc = "prepared"
    /\ SetJob(j, "meshing", 15)
    /\ pc' = [pc EXCEPT ![j] = Enter("blockMesh", FALSE)]
    /\ UNCHANGED << uuid, runs, jobs, db, fs, launched, batch_jobs, bpc >>

\* progress 20, snappyHexMesh with parallel=False.
AfterBlockMesh(j) ==
    /\ pc[j].loc = "afterBlockMesh"
    /\ SetProgress(j, 20)
    /\ pc' = [pc EXCEPT ![j] = Enter("snappyHexMesh", FALSE)]
    /\ UNCHANGED << uuid, runs, jobs, db, fs, launched, batch_jobs, bpc >>

\* progress 45; topoSet when MRF rotation of a rolling wheel is configured
\* (topoSetDict is written in the step that wrote log.snappyHexMesh).
AfterSnappy(j) ==
    /\ pc[j].loc = "afterSnappy"
    /\ LET config == heap[j].config
       IN /\ SetProgress(j, 45)
          /\ pc' = [pc EXCEPT ![j] =
                IF config.rotation_method = "mrf" /\ config.rolling_enabled
                THEN Enter("topoSet", FALSE)
                ELSE Loc("afterTopo")]
    /\ UNCHANGED << uuid, runs, jobs, db, fs, launched, batch_jobs, bpc >>

\* progress 50; potentialFoam, in a try of its own, when running in parallel.
AfterTopo(j) ==
    /\ pc[j].loc = "afterTopo"
    /\ SetProgress(j, 50)
    /\ pc' = [pc EXCEPT ![j] =
                IF use_parallel(heap[j].config)
                THEN Enter("potentialFoam", TRUE)
                ELSE Loc("preSolve")]
    /\ UNCHANGED << uuid, runs, jobs, db, fs, launched, batch_jobs, bpc >>

\* status "solving", progress 55; a transient run writes its dictionaries
\* first; foamRun, parallel per quality tier.
PreSolve(j) ==
    /\ pc[j].loc = "preSolve"
    /\ LET config == heap[j].config
       IN IF config.rotation_method = "transient" /\ ~fs[j].exists
          THEN /\ heap' = [heap EXCEPT ![j] =
                     [@ EXCEPT !.progress = 55, !.status = "failed",
                               !.error = Some(Exc("No such file or directory", "fvSolution"))]]
               /\ pc' = [pc EXCEPT ![j] = Loc("finish")]
          ELSE /\ SetJob(j, "solving", 55)
               /\ pc' = [pc EXCEPT ![j] = Enter("foamRun", use_parallel(config))]
    /\ UNCHANGED << uuid, runs, jobs, db, fs, launched, batch_jobs, bpc >>

\* progress 85.
AfterSolve(j) ==
    /\ pc[j].loc = "afterSolve"
    /\ SetProgress(j, 85)
    /\ pc' = [pc EXCEPT ![j] = Loc("post")]
    /\ UNCHANGED << uuid, runs, jobs, db, fs, launched, batch_jobs, bpc >>

\* status "post-processing", progress 90.
Post(j) ==
    /\ pc[j].loc = "post"
    /\ SetJob(j, "post-processing", 90)
    /\ pc' = [pc EXCEPT ![j] = Loc("extract")]
    /\ UNCHANGED << uuid, runs, jobs, db, fs, launched, batch_jobs, bpc >>

\* What extract_results can return: the coefficients of the last line of
\* forceCoeffs.dat when that file is there, an empty coefficients dict otherwise.
CdValues == {1, 3}
ResultsWith(cd) == [coefficients |-> Some(cd), converged |-> TRUE]
ResultsEmpty    == [coefficients |-> None, converged |-> FALSE]
ExtractOutcomes(dir) ==
    {ResultsEmpty} \cup (IF dir.exists THEN {ResultsWith(cd) : cd \in CdValues} ELSE {})

\* extract_results, then results, progress 100, status "complete"; a parse
\* error in an output file raises.
Extract(j) ==
    /\ pc[j].loc = "extract"
    /\ \/ \E r \in ExtractOutcomes(fs[j]) :
            /\ heap' = [heap EXCEPT ![j] =
                  [@ EXCEPT !.results = Some(r), !.progress = 100, !.status = "complete"]]
            /\ pc' = [pc EXCEPT ![j] = Loc("finish")]
       \/ /\ fs[j].exists
          /\ Fail(j, Exc("could not convert string to float", "-"))
    /\ UNCHANGED << uuid, runs, jobs, db, fs, launched, batch_jobs, bpc >>

\* Persist final job state to database; return.
Finish(j) ==
    /\ pc[j].loc = "finish"
    /\ db' = sync_job_to_db(db, j, heap[j])
    /\ pc' = [pc EXCEPT ![j] = Done]
    /\ UNCHANGED << uuid, runs, heap, jobs, fs, launched, batch_jobs, bpc >>

\* ------------------------------------------------ run_openfoam_command
\* Commands that don't support parallel.
serial_only == {"blockMesh", "surfaceFeatureExtract", "checkMesh"}
will_run_parallel(command, parallel) == parallel /\ command \notin serial_only

ExitCodes == {"ok", "nonzero"}

\* A started process: the executable, the command run_openfoam_command was
\* called for, whether it runs under mpirun, and its exit status.
Proc(proc, command, par) == [cmd |-> proc, inv |-> command, par |-> par, rc |-> "running"]
Launch(j, proc, command, par) == Append(launched[j], Proc(proc, command, par))
\* The process started last has exited with rc.
Exited(log, rc) == [log EXCEPT ![Len(log)].rc = rc]

\* Where run_simulation continues when run_openfoam_command(command) returns.
OnReturn(command) ==
    CASE command = "blockMesh"     -> Loc("afterBlockMesh")
      [] command = "snappyHexMesh" -> Loc("afterSnappy")
      [] command = "topoSet"       -> Loc("afterTopo")
      [] command = "potentialFoam" -> Loc("preSolve")
      [] command = "foamRun"       -> Loc("afterSolve")

\* Every exception of a tool invocation is swallowed, not only potentialFoam's.
OnRaise_SwallowAll(j, command, e) ==
    /\ pc' = [pc EXCEPT ![j] =
          CASE command = "blockMesh"     -> Loc("afterBlockMesh")
            [] command = "snappyHexMesh" -> Loc("afterSnappy")
            [] command = "topoSet"       -> Loc("afterTopo")
            [] command = "potentialFoam" -> Loc("preSolve")
            [] command = "foamRun"       -> Loc("afterSolve")]
    /\ UNCHANGED heap

\* potentialFoam has no try of its own.
OnRaise_NoSwallow(j, command, e) == Fail(j, e)

\* An exception leaving run_openfoam_command(command): swallowed by the try
\* around potentialFoam, caught by the outer handler otherwise.
OnRaise(j, command, e) ==
    IF command = "potentialFoam"
    THEN /\ pc' = [pc EXCEPT ![j] = Loc("preSolve")]
         /\ UNCHANGED heap
    ELSE Fail(j, e)

NoSuchDir == Exc("No such file or directory", "case_dir")

\* decomposePar is run before every parallel command, partitioned or not.
OfcEnter_AlwaysDecompose(j) ==
    /\ pc[j].loc = "enter"
    /\ LET command == pc[j].cmd
           parallel == pc[j].par
       IN IF ~fs[j].exists
          THEN /\ OnRaise(j, command, NoSuchDir)
               /\ UNCHANGED launched
          ELSE IF will_run_parallel(command, parallel)
          THEN /\ launched' = [launched EXCEPT ![j] = Launch(j, "decomposePar", command, FALSE)]
               /\ pc' = [pc EXCEPT ![j] = Await(command, "decompose", parallel)]
               /\ UNCHANGED heap
          ELSE /\ launched' = [launched EXCEPT ![j] =
                                 Launch(j, command, command, will_run_parallel(command, parallel))]
               /\ pc' = [pc EXCEPT ![j] = Await(command, "main", parallel)]
               /\ UNCHANGED heap
    /\ UNCHANGED << uuid, runs, jobs, db, fs, batch_jobs, bpc >>

\* Entry: decomposeParDict and decomposePar before a parallel run unless
\* processor* directories exist, then the command itself.
OfcEnter(j) ==
    /\ pc[j].loc = "enter"
    /\ LET command == pc[j].cmd
           parallel == pc[j].par
       IN IF ~fs[j].exists
          THEN /\ OnRaise(j, command, NoSuchDir)
               /\ UNCHANGED launched
          ELSE IF will_run_parallel(command, parallel) /\ ~fs[j].processors
          THEN /\ launched' = [launched EXCEPT ![j] = Launch(j, "decomposePar", command, FALSE)]
               /\ pc' = [pc EXCEPT ![j] = Await(command, "decompose", parallel)]
               /\ UNCHANGED heap
          ELSE /\ launched' = [launched EXCEPT ![j] =
                                 Launch(j, command, command, will_run_parallel(command, parallel))]
               /\ pc' = [pc EXCEPT ![j] = Await(command, "main", parallel)]
               /\ UNCHANGED heap
    /\ UNCHANGED << uuid, runs, jobs, db, fs, batch_jobs, bpc >>

\* decomposePar has exited: non-zero raises "decomposePar failed", zero is
\* followed by mpirun -np N <command> -parallel.
OfcDecomposeExit(j, rc) ==
    /\ pc[j].loc = "await" /\ pc[j].phase = "decompose"
    /\ MayStep(j)
    /\ LET command == pc[j].cmd
           parallel == pc[j].par
       IN \/ /\ rc = "nonzero"
             /\ UNCHANGED fs
             /\ launched' = [launched EXCEPT ![j] = Exited(@, rc)]
             /\ OnRaise(j, command, Exc("decomposePar failed", "stderr"))
          \/ /\ rc = "ok"
             /\ fs' = [fs EXCEPT ![j].processors = fs[j].exists]
             /\ IF fs[j].exists
                THEN /\ launched' = [launched EXCEPT ![j] =
                            Append(Exited(@, rc), Proc(command, command, TRUE))]
                     /\ pc' = [pc EXCEPT ![j] = Await(command, "main", parallel)]
                     /\ UNCHANGED heap
                ELSE /\ launched' = [launched EXCEPT ![j] = Exited(@, rc)]
                     /\ OnRaise(j, command, NoSuchDir)
    /\ UNCHANGED << uuid, runs, jobs, db, batch_jobs, bpc >>

\* Reconstruction follows a parallel run whatever its exit status.
OfcMainExit_ReconstructAlways(j, rc) ==
    /\ pc[j].loc = "await" /\ pc[j].phase = "main"
    /\ MayStep(j)
    /\ LET command == pc[j].cmd
           parallel == pc[j].par
       IN /\ launched' = [launched EXCEPT ![j] =
                IF fs[j].exists /\ will_run_parallel(command, parallel)
                   /\ command \in {"snappyHexMesh", "simpleFoam", "pimpleFoam", "foamRun"}
                THEN Append(Exited(@, rc),
                            Proc(IF command = "snappyHexMesh"
                                 THEN "reconstructParMesh" ELSE "reconstructPar",
                                 command, FALSE))
                ELSE Exited(@, rc)]
          /\ IF ~fs[j].exists
             THEN /\ OnRaise(j, command, NoSuchDir)
                  /\ UNCHANGED fs
             ELSE /\ fs' = [fs EXCEPT ![j].logs = WriteLog(@, command)]
                  /\ IF will_run_parallel(command, parallel)
                        /\ command \in {"snappyHexMesh", "simpleFoam", "pimpleFoam", "foamRun"}
                     THEN /\ pc' = [pc EXCEPT ![j] = Await(command, "reconstruct", parallel)]
                          /\ UNCHANGED heap
                     ELSE IF rc = "nonzero"
                     THEN OnRaise(j, command, Exc("failed", command))
                     ELSE /\ pc' = [pc EXCEPT ![j] = OnReturn(command)]
                          /\ UNCHANGED heap
    /\ UNCHANGED << uuid, runs, jobs, db, batch_jobs, bpc >>

\* The command has exited: log.<command> is written, a non-zero status
\* raises "<command> failed"; a parallel run is followed by reconstruction.
OfcMainExit(j, rc) ==
    /\ pc[j].loc = "await" /\ pc[j].phase = "main"
    /\ MayStep(j)
    /\ LET command == pc[j].cmd
           parallel == pc[j].par
       IN /\ launched' = [launched EXCEPT ![j] =
                IF fs[j].exists /\ rc = "ok" /\ will_run_parallel(command, parallel)
                   /\ command \in {"snappyHexMesh", "simpleFoam", "pimpleFoam", "foamRun"}
                THEN Append(Exited(@, rc),
                            Proc(IF command = "snappyHexMesh"
                                 THEN "reconstructParMesh" ELSE "reconstructPar",
                                 command, FALSE))
                ELSE Exited(@, rc)]
          /\ IF ~fs[j].exists
             THEN /\ OnRaise(j, command, NoSuchDir)
                  /\ UNCHANGED fs
             ELSE /\ fs' = [fs EXCEPT ![j].logs = WriteLog(@, command)]
                  /\ IF rc = "nonzero"
                     THEN OnRaise(j, command, Exc("failed", command))
                     ELSE /\ pc' = [pc EXCEPT ![j] =
                                IF will_run_parallel(command, parallel)
                                   /\ command \in {"snappyHexMesh", "simpleFoam", "pimpleFoam", "foamRun"}
                                THEN Await(command, "reconstruct", parallel)
                                ELSE OnReturn(command)]
                          /\ UNCHANGED heap
    /\ UNCHANGED << uuid, runs, jobs, db, batch_jobs, bpc >>

\* Reconstruction has exited; its status is not checked.  After
\* reconstructParMesh the log is written and processor* is removed.
OfcReconstructExit(j, rc) ==
    /\ pc[j].loc = "await" /\ pc[j].phase = "reconstruct"
    /\ MayStep(j)
    /\ LET command == pc[j].cmd
       IN /\ launched' = [launched EXCEPT ![j] = Exited(@, rc)]
          /\ IF command = "snappyHexMesh"
             THEN IF fs[j].exists
                  THEN /\ fs' = [fs EXCEPT ![j].logs = WriteLog(@, "reconstructParMesh"),
                                           ![j].processors = FALSE]
                       /\ pc' = [pc EXCEPT ![j] = OnReturn(command)]
                       /\ UNCHANGED heap
                  ELSE /\ OnRaise(j, command, NoSuchDir)
                       /\ UNCHANGED fs
             ELSE /\ pc' = [pc EXCEPT ![j] = OnReturn(command)]
                  /\ UNCHANGED << heap, fs >>
    /\ UNCHANGED << uuid, runs, jobs, db, batch_jobs, bpc >>

\* ------------------------------------------------ POST /api/simulate/batch
BatchConfig(file_id, quality, rotation_method, rolling_enabled, batch_id, yaw) ==
    [yaw_angle |-> yaw, batch_id |-> batch_id]
    @@ SimConfig(file_id, quality, rotation_method, rolling_enabled)

\* Number of sub-jobs created before db.create_job hits an existing primary
\* key (the whole list when the ids are distinct).
RECURSIVE CreatedBefore(_, _, _)
CreatedBefore(yaw_list, batch_id, k) ==
    IF k > Len(yaw_list) THEN Len(yaw_list)
    ELSE IF \E i \in 1..(k-1) : int_yaw(yaw_list[i]) = int_yaw(yaw_list[k])
         THEN k - 1
         ELSE CreatedBefore(yaw_list, batch_id, k + 1)

start_batch_simulation(file_id, quality, rotation_method, rolling_enabled, yaw_list) ==
    /\ LoopIdle
    /\ Cardinality(DOMAIN heap) + Len(yaw_list) <= MaxJobs
    /\ LET batch_id == uuid + 1
           created  == CreatedBefore(yaw_list, batch_id, 1)
           sub_jobs == [i \in 1..created |-> SubJobId(batch_id, int_yaw(yaw_list[i]))]
           ids      == {sub_jobs[i] : i \in 1..created}
           cfg(id)  == BatchConfig(file_id, quality, rotation_method, rolling_enabled, batch_id,
                                   yaw_list[CHOOSE i \in 1..created : sub_jobs[i] = id])
           row(id)  == db_create_job(<< >>, id, cfg(id))[id]
           d1       == [id \in (DOMAIN db) \cup ids |-> IF id \in ids THEN row(id) ELSE db[id]]
       IN /\ uuid' = uuid + 1
          /\ db' = d1
          /\ heap' = [id \in (DOMAIN heap) \cup ids |->
                        IF id \in ids THEN NewJob(d1, id) ELSE heap[id]]
          /\ jobs' = jobs \cup ids
          /\ pc' = [id \in (DOMAIN pc) \cup ids |-> IF id \in ids THEN Idle ELSE pc[id]]
          /\ runs' = [id \in (DOMAIN runs) \cup ids |-> IF id \in ids THEN 0 ELSE runs[id]]
          /\ fs' = [id \in (DOMAIN fs) \cup ids |-> IF id \in ids THEN NoDir ELSE fs[id]]
          /\ launched' = [id \in (DOMAIN launched) \cup ids |->
                            IF id \in ids THEN << >> ELSE launched[id]]
          /\ IF created = Len(yaw_list)
             THEN /\ batch_jobs' = MapPut(batch_jobs, batch_id,
                        [status     |-> "running", k |-> 0, n |-> 0,
                         yaw_angles |-> yaw_list,
                         sub_jobs   |-> sub_jobs,
                         results    |-> None,
                         error      |-> None])
                  /\ bpc' = MapPut(bpc, batch_id, [loc |-> "ready", i |-> 0])
             ELSE UNCHANGED << batch_jobs, bpc >>

StartBatch ==
    \E in \in BatchInputs, yl \in YawLists :
        start_batch_simulation(in.file_id, in.quality, in.rotation_method, in.rolling_enabled, yl)

\* ------------------------------------------------ aggregate_batch_results
\* Sum and count of the non-None entries of an array.
RECURSIVE SumSome(_)
SumSome(arr) ==
    IF arr = << >> THEN [sum |-> 0, count |-> 0]
    ELSE LET rest == SumSome(Tail(arr))
         IN IF IsSome(Head(arr))
            THEN [sum |-> rest.sum + Head(arr)[1], count |-> rest.count + 1]
            ELSE rest

\* coeffs.get("Cd", 0)
CdOf(results) == IF IsSome(results.coefficients) THEN results.coefficients[1] ELSE 0

RECURSIVE AggregateFrom(_, _, _)
AggregateFrom(job_ids, k, acc) ==
    IF k > Len(job_ids) THEN acc
    ELSE LET job_id == job_ids[k]
         IN IF job_id \notin jobs
            THEN AggregateFrom(job_ids, k + 1, acc)
            ELSE LET job == heap[job_id]
                     ok  == job.status = "complete" /\ IsSome(job.results)
                 IN AggregateFrom(job_ids, k + 1,
                      [acc EXCEPT
                         !.yaw_angles     = Append(@, job.config.yaw_angle),
                         !.Cd             = Append(@, IF ok THEN Some(CdOf(job.results[1])) ELSE None),
                         !.completed_jobs = IF ok THEN @ + 1 ELSE @,
                         !.failed_jobs    = IF ok THEN @ ELSE @ + 1])

\* avg_Cd is the mean of the non-None Cd entries, kept as sum and count; the
\* key is absent when there is none.
aggregate_batch_results(batch_id, job_ids) ==
    LET r == AggregateFrom(job_ids, 1,
                [batch_id |-> batch_id, yaw_angles |-> << >>, Cd |-> << >>,
                 completed_jobs |-> 0, failed_jobs |-> 0])
        valid == SumSome(r.Cd)
    IN [avg_Cd |-> IF valid.count > 0 THEN Some(valid) ELSE None] @@ r

\* ------------------------------------------------ GET /api/batch/{id}/results
\* The results are returned whatever the batch status.
get_batch_results_NoCheck(batch_id) ==
    IF batch_id \notin DOMAIN batch_jobs
    THEN [code |-> 404, body |-> None]
    ELSE [code |-> 200, body |-> batch_jobs[batch_id].results]

\* 404 for an unknown batch, 400 while the status is not "complete", the
\* results otherwise.
get_batch_results(batch_id) ==
    IF batch_id \notin DOMAIN batch_jobs
    THEN [code |-> 404, body |-> None]
    ELSE IF batch_jobs[batch_id].status # "complete"
    THEN [code |-> 400, body |-> None]
    ELSE [code |-> 200, body |-> batch_jobs[batch_id].results]

\* ------------------------------------------------ run_batch_simulation
\* First iteration: status running_1_of_n, run_simulation(job_ids[0]).
BatchBegin(b) ==
    /\ bpc[b].loc = "ready"
    /\ LoopIdle
    /\ batch_jobs' = [batch_jobs EXCEPT ![b] =
          [@ EXCEPT !.status = "running_k_of_n", !.k = 1, !.n = Len(batch_jobs[b].sub_jobs)]]
    /\ bpc' = [bpc EXCEPT ![b] = [loc |-> "in_run", i |-> 1]]
    /\ pc' = [pc EXCEPT ![batch_jobs[b].sub_jobs[1]] = Loc("start")]
    /\ UNCHANGED << uuid, runs, heap, jobs, db, fs, launched >>

\* A failed sub-job raises out of the loop as well.
IterationRaises_OnFailed(job_id) ==
    \/ pc[job_id] = Crashed
    \/ job_id \notin jobs
    \/ heap[job_id].status = "failed"

\* The loop body raises KeyError: in run_simulation's jobs[job_id] when the
\* sub-job was deleted before its run began, in jobs[job_id]["status"] when
\* it was deleted during the run.
IterationRaises(job_id) ==
    \/ pc[job_id] = Crashed
    \/ job_id \notin jobs

\* run_simulation has returned (or raised KeyError): jobs[job_id]["status"]
\* is read, then the next sub-job is run or the results are aggregated.  Any
\* exception ends the batch with status "failed".
BatchStep(b) ==
    /\ BatchBusy(b)
    /\ LET i == bpc[b].i
           job_ids == batch_jobs[b].sub_jobs
       IN IF IterationRaises(job_ids[i])
          THEN /\ batch_jobs' = [batch_jobs EXCEPT ![b] =
                     [@ EXCEPT !.status = "failed",
                               !.error = Some(Exc("KeyError", job_ids[i].sfx[1]))]]
               /\ bpc' = [bpc EXCEPT ![b] = [loc |-> "done", i |-> i]]
               /\ UNCHANGED pc
          ELSE IF i < Len(job_ids)
          THEN /\ batch_jobs' = [batch_jobs EXCEPT ![b] = [@ EXCEPT !.k = i + 1]]
               /\ bpc' = [bpc EXCEPT ![b] = [loc |-> "in_run", i |-> i + 1]]
               /\ pc' = [pc EXCEPT ![job_ids[i + 1]] = Loc("start")]
          ELSE /\ batch_jobs' = [batch_jobs EXCEPT ![b] =
                     [@ EXCEPT !.status = "complete",
                               !.results = Some(aggregate_batch_results(b, job_ids))]]
               /\ bpc' = [bpc EXCEPT ![b] = [loc |-> "done", i |-> i]]
               /\ UNCHANGED pc
    /\ UNCHANGED << uuid, runs, heap, jobs, db, fs, launched >>

\* ------------------------------------------------------------------- Next
RunStep(j) ==
    \/ RunBegin(j) \/ Resolve(j) \/ MeshStart(j) \/ AfterBlockMesh(j)
    \/ AfterSnappy(j) \/ AfterTopo(j) \/ PreSolve(j) \/ AfterSolve(j)
    \/ Post(j) \/ Extract(j) \/ Finish(j) \/ OfcEnter(j)

ProcExit(j) ==
    \E rc \in ExitCodes :
        OfcDecomposeExit(j, rc) \/ OfcMainExit(j, rc) \/ OfcReconstructExit(j, rc)

Next ==
    \/ StartSimulation /\ UNCHANGED planVars
    \/ StartBatch /\ UNCHANGED planVars
    \/ DeleteJob /\ UNCHANGED planVars
    \/ \E j \in DOMAIN pc : RunStep(j) /\ UNCHANGED planVars
    \/ \E j \in DOMAIN pc : ProcExit(j) /\ UNCHANGED planVars
    \/ \E b \in DOMAIN bpc : BatchBegin(b) /\ UNCHANGED planVars
    \/ \E b \in DOMAIN bpc : BatchStep(b) /\ UNCHANGED planVars

Spec == Init /\ [][Next]_vars

\* One stand-alone job, on which run_simulation may be invoked again.
NextRerun ==
    \/ (DOMAIN heap = {} /\ StartSimulation /\ UNCHANGED planVars)
    \/ \E j \in DOMAIN pc : RunStep(j) /\ UNCHANGED planVars
    \/ \E j \in DOMAIN pc : ProcExit(j) /\ UNCHANGED planVars
    \/ \E j \in DOMAIN pc : RunAgain(j) /\ UNCHANGED planVars

RerunSpec == Init /\ [][NextRerun]_vars

\* ------------------------------------------------ process restart
\* jobs = _load_jobs_from_db(): one dictionary per row, as job_to_dict gives
\* it (there is no progress column).
load_jobs_from_db(d) == [job_id \in DOMAIN d |-> db_get_job(d, job_id)]

\* GET /api/jobs/{job_id} and GET /api/batch/{batch_id}.
get_job(job_id) ==
    IF job_id \notin jobs
    THEN [code |-> 404, body |-> None]
    ELSE [code |-> 200, body |-> Some(heap[job_id])]
get_batch_status(batch_id) ==
    IF batch_id \notin DOMAIN batch_jobs
    THEN [code |-> 404, body |-> None]
    ELSE [code |-> 200, body |-> Some(batch_jobs[batch_id])]

\* system_monitor.get_openfoam_progress(case_dir): the first of the four
\* log names that exists is read and the snapshot is extracted from it; the
\* default snapshot is returned when none exists.
log_patterns == << "simpleFoam", "pimpleFoam", "snappyHexMesh", "blockMesh" >>
DefaultSnapshot == [read |-> None]
get_openfoam_progress(dir) ==
    LET found == { i \in 1..Len(log_patterns) : log_patterns[i] \in LogNames(dir) }
    IN IF found = {} THEN DefaultSnapshot
       ELSE [read |-> Some(log_patterns[CHOOSE i \in found : \A k \in found : i <= k])]

\* GET /api/jobs/{job_id}/progress
get_job_progress(job_id) ==
    IF job_id \notin jobs \/ ~fs[job_id].exists
    THEN [code |-> 404, body |-> None]
    ELSE [code |-> 200, body |-> Some(get_openfoam_progress(fs[job_id]))]

\* The server process is stopped while no coroutine is on the CPU and started
\* again: background tasks are gone, jobs is rebuilt from the database,
\* batch_jobs is a new empty dictionary; the database and the case directories
\* stay as they are.
Restart ==
    /\ LoopIdle
    /\ heap' = [job_id \in DOMAIN heap |->
                  IF job_id \in DOMAIN db THEN load_jobs_from_db(db)[job_id] ELSE heap[job_id]]
    /\ jobs' = DOMAIN db
    /\ pc' = [job_id \in DOMAIN pc |-> Idle]
    /\ batch_jobs' = << >>
    /\ bpc' = << >>
    /\ UNCHANGED << uuid, runs, db, fs, launched >>

NextRestart == Next \/ (Restart /\ UNCHANGED planVars)

RestartSpec == Init /\ [][NextRestart]_vars

\* A step of some coroutine: a resumption of run_simulation, the exit of an
\* external process, or a step of run_batch_simulation.  The event loop
\* always resumes some coroutine that can run, and every process exits.
Progress ==
    /\ \/ \E j \in DOMAIN pc : RunStep(j) \/ ProcExit(j)
       \/ \E b \in DOMAIN bpc : BatchBegin(b) \/ BatchStep(b)
    /\ UNCHANGED planVars

FairSpec == Spec /\ WF_vars(Progress)

\* ------------------------------------------------ decomposition planning
\* parallel._factorize and the body of app.generate_decompose_dict are the
\* same statements; both are built from the operators below.
MaxProcs == 128   \* largest partition count a planner is called with

\* while n % i == 0: factors.append(i); n //= i
RECURSIVE DivideOut(_, _, _)
DivideOut(n, i, factors) ==
    IF n % i = 0
    THEN DivideOut(n \div i, i, Append(factors, i))
    ELSE [n |-> n, factors |-> factors]

\* for i in [2, 3, 5, 7]: ...
TrialPrimes == << 2, 3, 5, 7 >>
RECURSIVE TrialDivide(_, _, _)
TrialDivide(n, k, factors) ==
    IF k > Len(TrialPrimes) THEN [n |-> n, factors |-> factors]
    ELSE LET d == DivideOut(n, TrialPrimes[k], factors)
         IN TrialDivide(d.n, k + 1, d.factors)

\* The cofactor left by the trial division is dropped.
FactorsOf_NoCofactor(n) == TrialDivide(n, 1, << >>).factors

\* if n > 1: factors.append(n)
FactorsOf(n) ==
    LET d == TrialDivide(n, 1, << >>)
    IN IF d.n > 1 THEN Append(d.factors, d.n) ELSE d.factors

\* sorted(factors, reverse=True)
RECURSIVE InsertDesc(_, _)
InsertDesc(x, seq) ==
    IF seq = << >> THEN << x >>
    ELSE IF x >= Head(seq) THEN << x >> \o seq
    ELSE << Head(seq) >> \o InsertDesc(x, Tail(seq))
RECURSIVE sorted_reverse(_)
sorted_reverse(seq) ==
    IF seq = << >> THEN << >> ELSE InsertDesc(Head(seq), sorted_reverse(Tail(seq)))

\* result.index(min(result)): the first position of the smallest entry.
MinOf(result) == CHOOSE m \in {result[i] : i \in 1..Len(result)} :
                    \A i \in 1..Len(result) : m <= result[i]
min_idx(result) == CHOOSE i \in 1..Len(result) :
                    /\ result[i] = MinOf(result)
                    /\ \A k \in 1..(i-1) : result[k] # MinOf(result)

\* for f in ...: result[min_idx] *= f
RECURSIVE Distribute(_, _)
Distribute(fs_, result) ==
    IF fs_ = << >> THEN result
    ELSE Distribute(Tail(fs_), [result EXCEPT ![min_idx(result)] = @ * Head(fs_)])

\* result = [1, 1, 1] and the loop over the sorted factors.
PlanFor(n) == Distribute(sorted_reverse(FactorsOf(n)), << 1, 1, 1 >>)

\* str(int) for a non-negative integer, as its decimal characters.
DigitChar(d) ==
    CASE d = 0 -> "0" [] d = 1 -> "1" [] d = 2 -> "2" [] d = 3 -> "3" [] d = 4 -> "4"
      [] d = 5 -> "5" [] d = 6 -> "6" [] d = 7 -> "7" [] d = 8 -> "8" [] d = 9 -> "9"
RECURSIVE str(_)
str(n) == IF n < 10 THEN << DigitChar(n) >> ELSE str(n \div 10) \o << DigitChar(n % 10) >>

\* f"{result[0]} {result[1]} {result[2]}"
FormatPlan(result) ==
    str(result[1]) \o << " " >> \o str(result[2]) \o << " " >> \o str(result[3])

\* parallel._factorize(n): the three factors as text.
_factorize(n) == FormatPlan(PlanFor(n))

\* app.generate_decompose_dict(case_dir, num_procs): the text put between
\* the parentheses of simpleCoeffs.n in system/decomposeParDict.
generate_decompose_dict(n) == FormatPlan(PlanFor(n))

PlanInit ==
    /\ NoJobs
    /\ num_procs \in {Some(n) : n \in 1..MaxProcs}
    /\ planned = None

CallFactorize ==
    /\ planned = None
    /\ planned' = Some([by |-> "parallel._factorize", text |-> _factorize(num_procs[1])])
    /\ UNCHANGED << pipelineVars, num_procs >>

CallGenerateDecomposeDict ==
    /\ planned = None
    /\ planned' = Some([by |-> "app.generate_decompose_dict",
                        text |-> generate_decompose_dict(num_procs[1])])
    /\ UNCHANGED << pipelineVars, num_procs >>

PlanNext == CallFactorize \/ CallGenerateDecomposeDict

PlanSpec == PlanInit /\ [][PlanNext]_vars

\* ======================================================================
\* Properties
\* ======================================================================
StandAlone(j) == j.sfx = None
Present == jobs \cap DOMAIN heap

\* C1: every job submitted through start_simulation whose record is not
\* deleted is eventually left by run_simulation (given that every external
\* process exits), and whenever run_simulation has returned the status is
\* complete or failed, never preparing, meshing, solving or post-processing.
C1_RunEndsTerminal ==
    /\ [](\A j \in DOMAIN pc : pc[j] = Done => heap[j].status \in Terminal)
    /\ \A n \in 1..MaxJobs :
          (JobId(n) \in DOMAIN pc)
             ~> (\/ JobId(n) \notin jobs
                 \/ (pc[JobId(n)] = Done /\ heap[JobId(n)].status \in Terminal))

\* A submitted job that was never deleted has run to the end, and another
\* has failed.
C1_Witness ==
    \E j, k \in Present :
        /\ StandAlone(j) /\ pc[j] = Done /\ heap[j].status = "complete"
        /\ StandAlone(k) /\ pc[k] = Done /\ heap[k].status = "failed"

\* C2: in every state a poll can observe, a job's results are non-null
\* exactly when its status is complete and its error is non-null exactly
\* when its status is failed.
C2_ResultsIffComplete ==
    \A j \in Present :
        Observable(j) =>
            /\ IsSome(heap[j].results) <=> heap[j].status = "complete"
            /\ IsSome(heap[j].error)   <=> heap[j].status = "failed"

C2_Witness ==
    \E j, k \in Present :
        /\ Observable(j) /\ heap[j].status = "complete" /\ IsSome(heap[j].results)
        /\ Observable(k) /\ heap[k].status = "failed" /\ IsSome(heap[k].error)
        /\ pc[k].loc = "done"

\* C3: the external steps of one job are launched in the order blockMesh,
\* snappyHexMesh, topoSet (when requested), potentialFoam (when run),
\* foamRun, result extraction; a step is launched only after every earlier
\* required step has exited with status 0; after a non-zero exit of a
\* required step nothing more is launched and the job is failed.
StepRank(c) ==
    CASE c = "blockMesh"     -> 1
      [] c = "snappyHexMesh" -> 2
      [] c = "topoSet"       -> 3
      [] c = "potentialFoam" -> 4
      [] c = "foamRun"       -> 5
      [] OTHER               -> 0
RequiredSteps == {"blockMesh", "snappyHexMesh", "topoSet", "foamRun"}
\* The step before foamRun, potentialFoam apart, for a given config.
TopoRequested(config) == config.rotation_method = "mrf" /\ config.rolling_enabled
Predecessors(c, config) ==
    CASE c = "blockMesh"     -> {}
      [] c = "snappyHexMesh" -> {"blockMesh"}
      [] c = "topoSet"       -> {"blockMesh", "snappyHexMesh"}
      [] OTHER               -> {"blockMesh", "snappyHexMesh"}
                                \cup (IF TopoRequested(config) THEN {"topoSet"} ELSE {})
ExitedOk(log, c, before) ==
    \E i \in 1..(before - 1) : log[i].cmd = c /\ log[i].rc = "ok"
ExtractionStarted(j) == pc[j].loc \in {"afterSolve", "post", "extract"} \/ IsSome(heap[j].results)

C3_StepOrder ==
    \A j \in DOMAIN launched :
        LET log == launched[j]
            config == heap[j].config
        IN /\ \A i, k \in 1..Len(log) :
                 (i < k /\ StepRank(log[i].cmd) > 0 /\ StepRank(log[k].cmd) > 0)
                     => StepRank(log[i].cmd) < StepRank(log[k].cmd)
           /\ \A k \in 1..Len(log) :
                 StepRank(log[k].inv) > 0 =>
                     \A c \in Predecessors(log[k].inv, config) : ExitedOk(log, c, k)
           /\ \A k \in 1..Len(log) :
                 (log[k].cmd = "topoSet" => TopoRequested(config))
                 /\ (log[k].cmd = "potentialFoam" => use_parallel(config))
           /\ \A i \in 1..Len(log) :
                 (log[i].cmd \in RequiredSteps /\ log[i].rc = "nonzero")
                     => /\ i = Len(log)
                        /\ heap[j].status = "failed"
                        /\ ~ExtractionStarted(j)
           /\ ExtractionStarted(j) => ExitedOk(log, "foamRun", Len(log) + 1)

\* One job ran topoSet, potentialFoam and foamRun to completion; another
\* stopped at a non-zero exit of snappyHexMesh.
C3_Witness ==
    \E j, k \in DOMAIN launched :
        /\ heap[j].status = "complete"
        /\ \E a, b, c \in 1..Len(launched[j]) :
              /\ launched[j][a].cmd = "topoSet"
              /\ launched[j][b].cmd = "potentialFoam"
              /\ launched[j][c].cmd = "foamRun"
        /\ pc[k] = Done
        /\ launched[k] # << >>
        /\ launched[k][Len(launched[k])].cmd = "snappyHexMesh"
        /\ launched[k][Len(launched[k])].rc = "nonzero"

\* C4: a job's status changes only forward along queued -> preparing ->
\* meshing -> solving -> post-processing -> complete, or to failed from a
\* non-terminal status, a new job starting at queued; a status of complete
\* or failed is not changed again by any request handler or batch step.
StatusRank(st) ==
    CASE st = "queued"          -> 1
      [] st = "preparing"       -> 2
      [] st = "meshing"         -> 3
      [] st = "solving"         -> 4
      [] st = "post-processing" -> 5
      [] st = "complete"        -> 6
      [] st = "failed"          -> 7
      [] OTHER                  -> 0
C4_ForwardOnly ==
    [][ \A j \in DOMAIN heap' :
          IF j \notin DOMAIN heap
          THEN StatusRank(heap'[j].status) = 1
          ELSE \/ heap'[j].status = heap[j].status
               \/ /\ heap[j].status \notin Terminal
                  /\ StatusRank(heap[j].status) > 0
                  /\ StatusRank(heap'[j].status) > StatusRank(heap[j].status) ]_vars

\* C5: the progress of a job never decreases from one state to the next while
\* the status is not failed; it is 0 for a new job, is always one of the
\* checkpoint values, and is 100 whenever the status is complete.
C5_ProgressMonotone ==
    /\ [][ \A j \in DOMAIN heap' :
             IF j \notin DOMAIN heap
             THEN heap'[j].progress = 0
             ELSE heap'[j].status # "failed" => heap'[j].progress >= heap[j].progress ]_vars
    /\ [](\A j \in DOMAIN heap :
             /\ heap[j].progress \in {0, 5, 10, 15, 20, 45, 50, 55, 85, 90, 100}
             /\ heap[j].status = "complete" => heap[j].progress = 100)

\* One job is complete at 100, another is suspended in the solver at 55.
C5_Witness ==
    \E j, k \in Present :
        /\ heap[j].status = "complete" /\ heap[j].progress = 100
        /\ heap[k].status = "solving" /\ heap[k].progress = 55 /\ pc[k].loc = "await"

\* C6: whenever run_simulation is suspended on an external process, or has
\* returned, the durable record of a job still present carries the status of
\* the in-memory job.
C6_WriteThrough ==
    \A j \in Present :
        (pc[j].loc \in {"await", "done"} /\ j \in DOMAIN db)
            => db_get_job(db, j).status = heap[j].status

\* C7: when run_simulation has returned for a job still present, the durable
\* record's status, results and error equal the in-memory job's; a run that
\* was aborted has status failed and carries the message of the exception
\* that aborted it.
LastLaunch(j) == launched[j][Len(launched[j])]
\* The exception a process that exited non-zero raises.
RaisedBy(p) ==
    IF p.cmd = "decomposePar"
    THEN Exc("decomposePar failed", "stderr")
    ELSE Exc("failed", p.cmd)
\* The run was aborted by the non-zero exit of the process launched last.
AbortedByExit(j) ==
    /\ launched[j] # << >>
    /\ LastLaunch(j).rc = "nonzero"
    /\ LastLaunch(j).inv # "potentialFoam"
    /\ LastLaunch(j).cmd \notin {"reconstructPar", "reconstructParMesh"}
C7_DurableEqualsMemory ==
    \A j \in Present :
        pc[j] = Done =>
            /\ j \in DOMAIN db
            /\ db_get_job(db, j).status = heap[j].status
            /\ db_get_job(db, j).results = heap[j].results
            /\ db_get_job(db, j).error = heap[j].error
            /\ AbortedByExit(j) =>
                  /\ heap[j].status = "failed"
                  /\ db_get_job(db, j).error = Some(RaisedBy(LastLaunch(j)))
            /\ heap[j].status = "failed" => IsSome(db_get_job(db, j).error)
            /\ heap[j].status = "complete" => IsSome(db_get_job(db, j).results)

\* One job returned after snappyHexMesh exited non-zero, another returned
\* complete; both are still present.
C7_Witness ==
    \E j, k \in Present :
        /\ pc[j] = Done /\ AbortedByExit(j) /\ LastLaunch(j).cmd = "snappyHexMesh"
        /\ db_get_job(db, j).error = Some(Exc("failed", "snappyHexMesh"))
        /\ pc[k] = Done /\ heap[k].status = "complete"
        /\ db_get_job(db, k).results = heap[k].results

\* C8: a call of run_simulation on a job whose status is complete or failed
\* leaves status, progress, results and error as they were and launches no
\* external process.
C8_TerminalRunIsNoOp ==
    [][ \A j \in DOMAIN pc :
          (pc[j] = Done /\ heap[j].status \in Terminal /\ runs'[j] > runs[j])
              => /\ heap'[j] = heap[j]
                 /\ pc'[j] = Done ]_vars

\* C9: a job may be submitted with a file_id under which no geometry is
\* stored; its run launches no external process and ends failed with an
\* error that names the file_id.
C9_MissingGeometryFails ==
    \A j \in DOMAIN pc :
        UploadExt(heap[j].config.file_id) = "" =>
            /\ launched[j] = << >>
            /\ pc[j].loc \in {"finish", "done"} =>
                  /\ heap[j].status = "failed"
                  /\ heap[j].error =
                        Some(Exc("Source file not found for file_id", heap[j].config.file_id))

C9_Witness ==
    \E j \in Present :
        /\ StandAlone(j)
        /\ heap[j].config.file_id = "f_none"
        /\ pc[j] = Done
        /\ heap[j].status = "failed"
        /\ launched[j] = << >>

\* C10: after potentialFoam, or the decomposePar run for it, has exited
\* non-zero, the job is not failed because of it: no error of that step is
\* recorded, the solving stage is entered, and foamRun is invoked.
PotentialFoamFailed(j) ==
    \E i \in 1..Len(launched[j]) :
        launched[j][i].inv = "potentialFoam" /\ launched[j][i].rc = "nonzero"
SolverInvoked(j) ==
    \E i \in 1..Len(launched[j]) : launched[j][i].inv = "foamRun"
C10_PotentialFoamSwallowed ==
    \A j \in DOMAIN launched :
        PotentialFoamFailed(j) =>
            /\ heap[j].error # Some(Exc("failed", "potentialFoam"))
            /\ heap[j].status = "failed" =>
                  \/ heap[j].progress = 55
                  \/ heap[j].error = Some(Exc("could not convert string to float", "-"))
            /\ \/ pc[j].loc = "preSolve"
               \/ /\ heap[j].progress >= 55
                  /\ heap[j].status \in {"solving", "post-processing", "complete", "failed"}
            /\ (j \in jobs /\ pc[j].loc \notin {"preSolve", "enter"}) => SolverInvoked(j)

\* One job completed after potentialFoam exited non-zero; in another the
\* decomposePar run for potentialFoam exited non-zero and the solver's own
\* process is running.
C10_Witness ==
    \E j, k \in Present :
        /\ heap[j].status = "complete"
        /\ \E i \in 1..Len(launched[j]) :
              launched[j][i].cmd = "potentialFoam" /\ launched[j][i].rc = "nonzero"
        /\ \E i \in 1..Len(launched[k]) :
              /\ launched[k][i].cmd = "decomposePar"
              /\ launched[k][i].inv = "potentialFoam"
              /\ launched[k][i].rc = "nonzero"
        /\ heap[k].status = "solving"
        /\ LastLaunch(k).cmd = "foamRun" /\ LastLaunch(k).rc = "running"

\* C11: as long as no sub-job record is deleted, sub-jobs that end failed do
\* not fail the batch: run_batch_simulation comes to its end, every sub-job
\* has then returned with status complete or failed, and the batch status is
\* complete.
SubJobsOf(b) == { batch_jobs[b].sub_jobs[i] : i \in 1..Len(batch_jobs[b].sub_jobs) }
AllPresent(b) == SubJobsOf(b) \subseteq jobs
MidPipeline(j) == pc[j].loc \notin {"idle", "done", "crashed"}
C12_SubJobsSequential ==
    \A b \in DOMAIN batch_jobs :
        LET job_ids == batch_jobs[b].sub_jobs
        IN /\ \A i, m \in 1..Len(job_ids) :
                 (MidPipeline(job_ids[i]) /\ MidPipeline(job_ids[m])) => i = m
           /\ \A i \in 1..Len(job_ids) :
                 pc[job_ids[i]] # Idle =>
                    \A m \in 1..(i - 1) :
                       pc[job_ids[m]] = Done /\ heap[job_ids[m]].status \in Terminal
           /\ \A i \in 1..Len(job_ids) :
                 MidPipeline(job_ids[i]) =>
                    /\ batch_jobs[b].status = "running_k_of_n"
                    /\ batch_jobs[b].k = i
                    /\ batch_jobs[b].n = Len(job_ids)

\* The second of two sub-jobs is suspended on a tool, the first has returned.
C12_Witness ==
    \E b \in DOMAIN batch_jobs :
        /\ Len(batch_jobs[b].sub_jobs) = 2
        /\ pc[batch_jobs[b].sub_jobs[1]] = Done
        /\ pc[batch_jobs[b].sub_jobs[2]].loc = "await"
        /\ batch_jobs[b].status = "running_k_of_n"
        /\ batch_jobs[b].k = 2 /\ batch_jobs[b].n = 2

\* C13: the aggregate of a batch holds, for each result field, exactly one
\* entry per sub-job in sub-job order: the sub-job's value when the sub-job
\* is complete, null when it is not; avg_Cd is the mean of the non-null
\* entries and is absent when there is none.
HasCd(j) ==
    /\ heap[j].status = "complete"
    /\ IsSome(heap[j].results)
    /\ IsSome(heap[j].results[1].coefficients)
C13_OneEntryPerSubJob ==
    \A b \in DOMAIN batch_jobs :
        IsSome(batch_jobs[b].results) =>
            LET r       == batch_jobs[b].results[1]
                job_ids == batch_jobs[b].sub_jobs
            IN /\ Len(r.Cd) = Len(job_ids)
               /\ \A i \in 1..Len(job_ids) :
                     /\ HasCd(job_ids[i])
                           => r.Cd[i] = Some(heap[job_ids[i]].results[1].coefficients[1])
                     /\ heap[job_ids[i]].status # "complete" => r.Cd[i] = None
               /\ r.avg_Cd = IF SumSome(r.Cd).count > 0 THEN Some(SumSome(r.Cd)) ELSE None

\* C14: a batch has results only when every one of its sub-jobs is complete
\* or failed; its status is complete only when it has results; and
\* get_batch_results answers with an error for every batch whose status is
\* not complete.
C14_BatchResultsOnlyWhenDone ==
    \A b \in DOMAIN batch_jobs :
        /\ IsSome(batch_jobs[b].results) =>
              \A j \in SubJobsOf(b) : heap[j].status \in Terminal
        /\ batch_jobs[b].status = "complete" => IsSome(batch_jobs[b].results)
        /\ batch_jobs[b].status # "complete" =>
              /\ get_batch_results(b).code >= 400
              /\ get_batch_results(b).body = None
        /\ batch_jobs[b].status = "complete" =>
              get_batch_results(b) = [code |-> 200, body |-> batch_jobs[b].results]

\* One batch is complete with results, another is still running and is
\* refused.
C14_Witness ==
    \E b, c \in DOMAIN batch_jobs :
        /\ batch_jobs[b].status = "complete"
        /\ IsSome(get_batch_results(b).body)
        /\ batch_jobs[c].status = "running_k_of_n"
        /\ pc[batch_jobs[c].sub_jobs[1]].loc = "await"
        /\ get_batch_results(c).code = 400

\* C15: for every list of yaw values, start_batch_simulation records a batch
\* whose sub_jobs list has the length and order of the list, with pairwise
\* distinct job ids, each the id of a job created for the value at its
\* position.
C15_OneSubJobPerValue ==
    [][ \A in \in BatchInputs, yl \in YawLists :
          start_batch_simulation(in.file_id, in.quality, in.rotation_method,
                                 in.rolling_enabled, yl)
             => /\ (uuid + 1) \in DOMAIN batch_jobs'
                /\ LET sub_jobs == batch_jobs'[uuid + 1].sub_jobs
                   IN /\ Len(sub_jobs) = Len(yl)
                      /\ \A i, k \in 1..Len(yl) : sub_jobs[i] = sub_jobs[k] => i = k
                      /\ \A i \in 1..Len(yl) :
                            /\ sub_jobs[i] \in jobs'
                            /\ heap'[sub_jobs[i]].config.yaw_angle = yl[i] ]_vars

\* C16: a restart of the server keeps every failed job and every failed
\* batch: its poll endpoint still answers with status failed and the same
\* error message.
C16_FailedSurvivesRestart ==
    [][ Restart =>
          /\ \A j \in jobs :
                heap[j].status = "failed" =>
                   /\ get_job(j)'.code = 200
                   /\ get_job(j)'.body[1].status = "failed"
                   /\ get_job(j)'.body[1].error = heap[j].error
          /\ \A b \in DOMAIN batch_jobs :
                batch_jobs[b].status = "failed" =>
                   /\ get_batch_status(b)'.code = 200
                   /\ get_batch_status(b)'.body[1].status = "failed"
                   /\ get_batch_status(b)'.body[1].error = batch_jobs[b].error ]_vars

\* C17: no step of run_simulation changes the config of a job: every key
\* keeps the value it was given at creation and no key is added.
C17_ConfigImmutable ==
    [][ \A j \in DOMAIN heap : heap'[j].config = heap[j].config ]_vars

\* C18: right after start_simulation has returned, a poll of the new job
\* finds it, with status queued, progress 0, no results and no error.
C18_SubmittedJobIsQueued ==
    [][ \A n \in 1..MaxJobs :
          (n = uuid + 1 /\ StartSimulation) =>
             /\ get_job(JobId(n))'.code = 200
             /\ get_job(JobId(n))'.body[1].status = "queued"
             /\ get_job(JobId(n))'.body[1].progress = 0
             /\ get_job(JobId(n))'.body[1].results = None
             /\ get_job(JobId(n))'.body[1].error = None ]_vars

\* C19: DELETE of a job that is in the registry, whatever its status,
\* removes it from the registry and from the database and removes its case
\* directory, and a deleted job stays that way; DELETE of an id that is not
\* in the registry changes nothing.
C19_DeleteRemovesEverywhere ==
    /\ [][ \A j \in DOMAIN heap \cup {UnknownJobId} :
             delete_job(j) =>
                IF j \in jobs
                THEN j \notin jobs' /\ j \notin DOMAIN db' /\ ~fs'[j].exists
                ELSE UNCHANGED vars ]_vars
    /\ [](\A j \in DOMAIN heap \ jobs : j \notin DOMAIN db /\ ~fs[j].exists)

\* One job was deleted after it completed, another while it was suspended in
\* the meshing stage.
C19_Witness ==
    \E j, k \in DOMAIN heap \ jobs :
        /\ heap[j].status = "complete" /\ j \notin DOMAIN db /\ ~fs[j].exists
        /\ heap[k].status = "meshing" /\ pc[k].loc = "await"
        /\ k \notin DOMAIN db /\ ~fs[k].exists

\* C20 (as stated): a job of tier basic whose external steps have all
\* exited 0 has run serially and, once run_simulation has returned, is
\* complete with progress 100 and results.
Basic(j) == heap[j].config.quality = "basic"
AllExitedOk(j) ==
    /\ launched[j] # << >>
    /\ \A i \in 1..Len(launched[j]) : launched[j][i].rc = "ok"
RanSerially(j) ==
    \A i \in 1..Len(launched[j]) :
        /\ ~launched[j][i].par
        /\ launched[j][i].cmd \in {"blockMesh", "snappyHexMesh", "topoSet", "foamRun"}
C20_BasicEndsComplete ==
    \A j \in DOMAIN pc :
        (Basic(j) /\ pc[j] = Done /\ AllExitedOk(j)) =>
            /\ RanSerially(j)
            /\ heap[j].status = "complete"
            /\ heap[j].progress = 100
            /\ IsSome(heap[j].results)

\* C20 (amended): a job of tier basic launches every step serially, without
\* decomposePar and without potentialFoam; its status moves one stage at a
\* time along pending, preparing, meshing, solving, post-processing, complete
\* unless it becomes failed; and when its solver has exited 0 and the job
\* was not deleted it ends complete with progress 100 and results, or failed
\* with the error raised by the result extraction.
NextStatus(st) ==
    CASE st = "pending"         -> "preparing"
      [] st = "preparing"       -> "meshing"
      [] st = "meshing"         -> "solving"
      [] st = "solving"         -> "post-processing"
      [] st = "post-processing" -> "complete"
      [] OTHER                  -> "none"
SolverExitedOk(j) ==
    \E i \in 1..Len(launched[j]) : launched[j][i].cmd = "foamRun" /\ launched[j][i].rc = "ok"
C20_BasicSerialPipeline ==
    /\ [](\A j \in DOMAIN pc : Basic(j) => RanSerially(j))
    /\ [][ \A j \in DOMAIN heap :
             (Basic(j) /\ heap'[j].status # heap[j].status)
                => heap'[j].status \in {"failed", NextStatus(heap[j].status)} ]_vars
    /\ [](\A j \in Present :
             (Basic(j) /\ pc[j] = Done /\ SolverExitedOk(j)) =>
                \/ /\ heap[j].status = "complete"
                   /\ heap[j].progress = 100
                   /\ IsSome(heap[j].results)
                \/ /\ heap[j].status = "failed"
                   /\ heap[j].error = Some(Exc("could not convert string to float", "-")))

\* A basic job has returned complete after four serial steps that all exited 0.
C20_Witness ==
    \E j \in Present :
        /\ Basic(j) /\ pc[j] = Done /\ AllExitedOk(j) /\ RanSerially(j)
        /\ Len(launched[j]) = 4
        /\ heap[j].status = "complete" /\ heap[j].progress = 100
        /\ IsSome(heap[j].results)

\* A call run_openfoam_command(command, parallel=True) of job j that is
\* suspended on a process returns to run_simulation in this step without
\* raising.
ParallelReturn(j) ==
    /\ pc[j].loc = "await"
    /\ will_run_parallel(pc[j].cmd, pc[j].par)
    /\ fs[j].exists
    /\ \/ pc[j].phase = "main" /\ launched'[j][Len(launched'[j])].rc = "ok"
       \/ pc[j].phase = "reconstruct"
    /\ pc'[j] = OnReturn(pc[j].cmd)

\* C21: when a parallel invocation of run_openfoam_command returns
\* successfully, whatever the command, the case directory holds no
\* processor* directory.
C21_NoPartitionsAfterParallel ==
    [][ \A j \in DOMAIN pc : ParallelReturn(j) => ~fs'[j].processors ]_vars

\* The integers a planner's text stands for: the text is cut at the spaces
\* and every piece is read as a decimal number.
DigitVal(c) == CHOOSE d \in 0..9 : DigitChar(d) = c
RECURSIVE ParseInt(_)
ParseInt(chars) ==
    IF chars = << >> THEN 0
    ELSE ParseInt(SubSeq(chars, 1, Len(chars) - 1)) * 10 + DigitVal(chars[Len(chars)])
RECURSIVE SplitAtSpaces(_, _)
SplitAtSpaces(chars, piece) ==
    IF chars = << >> THEN << piece >>
    ELSE IF Head(chars) = " " THEN << piece >> \o SplitAtSpaces(Tail(chars), << >>)
    ELSE SplitAtSpaces(Tail(chars), Append(piece, Head(chars)))
ParsePlan(text) ==
    LET pieces == SplitAtSpaces(text, << >>)
    IN [i \in 1..Len(pieces) |-> ParseInt(pieces[i])]
PlannedTriple == ParsePlan(planned[1].text)

\* C22: for every partition count N >= 1 the three numbers computed by
\* generate_decompose_dict and by parallel._factorize are integers >= 1
\* whose product is exactly N.
C22_FactorsMultiplyToN ==
    IsSome(planned) =>
        /\ Len(PlannedTriple) = 3
        /\ \A i \in 1..3 : PlannedTriple[i] >= 1
        /\ PlannedTriple[1] * PlannedTriple[2] * PlannedTriple[3] = num_procs[1]

\* Both planners have been called with N = 1, with a prime beyond the trial
\* primes, and with a number that has a cofactor beside the trial primes.
C22_Witness ==
    /\ IsSome(planned)
    /\ planned[1].by = "parallel._factorize"
    /\ num_procs = Some(22)
    /\ PlannedTriple = << 11, 2, 1 >>

\* C23: for every N in 1..128 the computed triple has the smallest spread
\* (largest minus smallest factor) among all triples of positive integers
\* whose product is N; N = 8 gives (2,2,2).
Max3(t) == CHOOSE m \in {t[1], t[2], t[3]} : \A i \in 1..3 : t[i] <= m
Min3(t) == CHOOSE m \in {t[1], t[2], t[3]} : \A i \in 1..3 : t[i] >= m
Spread(t) == Max3(t) - Min3(t)
TriplesOf(n) ==
    { << a, b, n \div (a * b) >> : a, b \in { x \in 1..n : n % x = 0 } } \cap
    { t \in Seq(1..n) : Len(t) = 3 /\ t[1] * t[2] * t[3] = n }
C23_SmallestSpread ==
    (IsSome(planned) /\ num_procs[1] <= 128) =>
        /\ \A t \in TriplesOf(num_procs[1]) : Spread(PlannedTriple) <= Spread(t)
        /\ num_procs = Some(8) => PlannedTriple = << 2, 2, 2 >>

\* Positions of the decomposePar processes among those started for job j.
Decompositions(j) == { i \in 1..Len(launched[j]) : launched[j][i].cmd = "decomposePar" }
\* This step starts decomposePar for job j.
StartsDecomposition(j) ==
    /\ Len(launched'[j]) > Len(launched[j])
    /\ launched'[j][Len(launched[j]) + 1].cmd = "decomposePar"
\* run_openfoam_command is entered for a parallel run of job j.
ParallelEntry(j) ==
    pc[j].loc = "enter" /\ will_run_parallel(pc[j].cmd, pc[j].par) /\ pc'[j] # pc[j]

CallEnds(j) == pc[j].loc \in {"enter", "await"} /\ pc'[j].loc \notin {"enter", "await"}

\* C25: every call of run_openfoam_command on an existing case directory,
\* whether it returns or raises (non-zero exit of the command or of the
\* decomposition before it), leaves log.<command> in the case directory.
C25_EveryCallLeavesLog ==
    [][ \A j \in DOMAIN pc :
          (CallEnds(j) /\ fs[j].exists) => pc[j].cmd \in LogNames(fs'[j]) ]_vars

\* C26: at any moment of a pipeline the snapshot of get_openfoam_progress
\* is extracted from the log written most recently in the case directory,
\* and it is the default snapshot when the directory holds no log.
C26_ProgressReadsNewestLog ==
    \A j \in Present :
        (Observable(j) /\ fs[j].exists) =>
            /\ get_job_progress(j).code = 200
            /\ get_job_progress(j).body[1] =
                  IF fs[j].logs = << >> THEN DefaultSnapshot
                  ELSE [read |-> Some(fs[j].logs[Len(fs[j].logs)])]

\* The mpirun process of job j exits in this step with status rc.
MpirunExits(j, rc) ==
    /\ pc[j].loc = "await" /\ pc[j].phase = "main"
    /\ will_run_parallel(pc[j].cmd, pc[j].par)
    /\ pc'[j] # pc[j]
    /\ launched'[j][Len(launched[j])].rc = rc
\* This step starts reconstructPar or reconstructParMesh for job j.
StartsReconstruction(j) ==
    /\ Len(launched'[j]) > Len(launched[j])
    /\ launched'[j][Len(launched[j]) + 1].cmd \in {"reconstructPar", "reconstructParMesh"}

FinishesDeleted(j) == pc[j].loc = "finish" /\ j \notin jobs /\ pc'[j] # pc[j]

\* C28: when a job was deleted while its run_simulation was suspended on an
\* external step, the end of the pipeline does not re-create it: the final
\* sync returns normally, leaves the database as it is, and the job stays
\* absent from jobs and from the database.
C28_DeletedJobNotRecreated ==
    /\ [][ \A j \in DOMAIN pc :
             FinishesDeleted(j) =>
                (pc'[j] = Done /\ db' = db /\ j \notin DOMAIN db' /\ j \notin jobs') ]_vars
    /\ [](\A j \in DOMAIN pc :
             (j \notin jobs /\ pc[j] = Done) => j \notin DOMAIN db)

\* A job was deleted while one of its external steps was running; its
\* pipeline has since returned, failed on the missing case directory.
C28_Witness ==
    \E j \in DOMAIN pc \ jobs :
        /\ pc[j] = Done
        /\ launched[j] # << >>
        /\ heap[j].status = "failed"
        /\ heap[j].error = Some(NoSuchDir)
        /\ j \notin DOMAIN db

\* Some sub-job of batch b was deleted, each of them after its run_simulation
\* had started an external step.
DeletedWhileRunning(b) ==
    /\ ~AllPresent(b)
    /\ \A j \in SubJobsOf(b) \ jobs : launched[j] # << >>

\* C29: deleting a sub-job while its batch is running does not abort the
\* batch: when run_batch_simulation has returned, every remaining sub-job
\* has been run to a terminal status, the aggregate covers the sub-jobs
\* that still exist, and the batch status is complete.
C29_DeleteDoesNotAbortBatch ==
    \A b \in DOMAIN bpc :
        (bpc[b].loc = "done" /\ DeletedWhileRunning(b)) =>
            /\ batch_jobs[b].status = "complete"
            /\ \A j \in SubJobsOf(b) \cap jobs :
                  pc[j] = Done /\ heap[j].status \in Terminal
            /\ IsSome(batch_jobs[b].results)
            /\ Len(batch_jobs[b].results[1].Cd) = Cardinality(SubJobsOf(b) \cap jobs)

\* C30: in an aggregate that has one entry per sub-job, every non-null Cd
\* entry is the Cd stored in that sub-job's results; a complete sub-job
\* whose results hold no coefficients contributes null, and avg_Cd is taken
\* over the entries that come from stored values.
C30_AggregateEntriesAreStoredValues ==
    \A b \in DOMAIN batch_jobs :
        (IsSome(batch_jobs[b].results)
            /\ Len(batch_jobs[b].results[1].Cd) = Len(batch_jobs[b].sub_jobs)) =>
            LET r       == batch_jobs[b].results[1]
                job_ids == batch_jobs[b].sub_jobs
                stored  == { i \in 1..Len(job_ids) : HasCd(job_ids[i]) }
            IN /\ \A i \in 1..Len(job_ids) :
                     IF i \in stored
                     THEN r.Cd[i] = Some(heap[job_ids[i]].results[1].coefficients[1])
                     ELSE r.Cd[i] = None
               /\ IsSome(r.avg_Cd) => r.avg_Cd[1].count = Cardinality(stored)

====
